---- MODULE Spec2Model ----
(***************************************************************************)
(* The pharmaceutical ledger of main.py: Block, PharmaBlockChain and the   *)
(* sample script's direct manipulation of the public list `chain`.         *)
(*                                                                         *)
(* Text is modelled as TLA+ strings: time.ctime() yields a string,         *)
(* json.dumps yields the JSON text with its keys sorted, and a digest is   *)
(* a string.  SHA-256 is idealised as collision free: the digest of a      *)
(* text is that text in a "sha256<...>" wrapper, so two digests are equal  *)
(* exactly when their preimages are.  A CSV file is a sequence of lines,   *)
(* a line a sequence of cells (csv quoting and line terminators are not    *)
(* modelled: every line of a file is complete).                            *)
(***************************************************************************)
EXTENDS Integers, Sequences, FiniteSets, TLC

VARIABLES
    chain,      \* PharmaBlockChain.chain: the list of Block objects
    now,        \* the wall clock read by time.ctime(), in seconds
    file,       \* the file at ledger_path: [exists, lines]
    file0,      \* the file as it was when the program started (never changes)
    exports,    \* history: len(self.chain) at each write_chain call so far
    call,       \* the last operation: [op, arg, raised, value, out]
    threads     \* per thread inside create_block: [pc, data, last_block, new_block]

vars == <<chain, now, file, file0, exports, call, threads>>

(***************************************************************************)
(* Bounds of the model.                                                    *)
(***************************************************************************)
MaxBlocks == 3      \* create_block / injection stop at this many blocks
MaxTime == 1        \* the clock stops ticking here
MaxExports == 2     \* write_chain is called at most this often

(***************************************************************************)
(* Text helpers.                                                           *)
(***************************************************************************)
RECURSIVE Join(_, _)
Join(items, sep) ==
    IF items = <<>> THEN ""
    ELSE IF Len(items) = 1 THEN items[1]
    ELSE items[1] \o sep \o Join(Tail(items), sep)

\* Python's `needle in hay` for two strings.
Contains(needle, hay) ==
    \E i \in 1..(Len(hay) - Len(needle) + 1) :
        SubSeq(hay, i, i + Len(needle) - 1) = needle

Quote(s) == "\"" \o s \o "\""

(***************************************************************************)
(* Payloads: a dict is its items in insertion order, keys distinct.        *)
(***************************************************************************)
\* The sample script's events 1 and 3.
Manufactured == << <<"event", "Manufactured">>, <<"batch_id", "Batch 1">>,
                   <<"location", "Factory A">>, <<"destination", "Distributor 1">> >>
Shipped == << <<"event", "Shipped">>, <<"batch_id", "Batch 1">>,
              <<"location", "Factory A">>, <<"destination", "Distributor 1">> >>
Payloads == {Manufactured, Shipped}
GenesisData == << <<"Event", "Genesis Block">> >>

\* Every key the payloads use, in the order Python's sort puts strings
\* (code point order: upper case before lower case).
KeyOrder == <<"Event", "batch_id", "destination", "event", "location">>

DictKeys(d) == {d[i][1] : i \in 1..Len(d)}
DictGet(d, k, default) ==
    IF k \in DictKeys(d) THEN d[CHOOSE i \in 1..Len(d) : d[i][1] = k][2]
    ELSE default

\* sort_keys=True: the keys of d in sorted order.
SortedKeys(d) == SelectSeq(KeyOrder, LAMBDA k : k \in DictKeys(d))

\* Mutant: the items are dumped in insertion order (sort_keys left out).
DumpsData_unsorted(d) ==
    LET item(kv) == Quote(kv[1]) \o ": " \o Quote(kv[2])
    IN "{" \o Join([i \in 1..Len(d) |-> item(d[i])], ", ") \o "}"

\* json.dumps(d, sort_keys=True) of a dict of strings.
DumpsData(d) ==
    LET ks == SortedKeys(d)
        item(k) == Quote(k) \o ": " \o Quote(DictGet(d, k, ""))
    IN "{" \o Join([i \in 1..Len(ks) |-> item(ks[i])], ", ") \o "}"

\* json.dumps(block_info, sort_keys=True): the four keys sort as
\* Data < Index < Previous Hash < Timestamp; Data is dumped sorted too.
DumpsBlockInfo(info) ==
    "{" \o Join(<< Quote("Data") \o ": " \o DumpsData(info.Data),
                  Quote("Index") \o ": " \o ToString(info.Index),
                  Quote("Previous Hash") \o ": " \o Quote(info.PreviousHash),
                  Quote("Timestamp") \o ": " \o Quote(info.Timestamp) >>, ", ")
        \o "}"

\* hashlib.sha256(text).hexdigest(), collision free.
Sha256(text) == "sha256<" \o text \o ">"
IsDigest(s) == Len(s) >= 7 /\ SubSeq(s, 1, 7) = "sha256<"

\* time.ctime() at clock value t.
Ctime(t) == "Thu Jan  1 00:00:0" \o ToString(t) \o " 1970"

(***************************************************************************)
(* class Block                                                             *)
(***************************************************************************)
calcHash(info) == Sha256(DumpsBlockInfo(info))

Block(index, timestamp, data, prev_hash) ==
    LET info == [Index |-> index, Timestamp |-> timestamp,
                 Data |-> data, PreviousHash |-> prev_hash]
    IN [index |-> index, timestamp |-> timestamp, data |-> data,
        prev_hash |-> prev_hash, block_info |-> info, hash |-> calcHash(info)]

(***************************************************************************)
(* class PharmaBlockChain: the methods as functions of the list.           *)
(***************************************************************************)
\* Mutant: the genesis block numbered from 1.
generate_genesis_block_from_one(t) == Block(1, Ctime(t), GenesisData, "0")

generate_genesis_block(t) == Block(0, Ctime(t), GenesisData, "0")

\* self.chain[-1]: the tail, or IndexError on an empty list.
retrieve_block(c) ==
    IF Len(c) = 0 THEN [raised |-> "IndexError", value |-> <<>>]
    ELSE [raised |-> "none", value |-> <<c[Len(c)]>>]

\* Mutant: the new block is linked to the tail's own predecessor.
new_block_stale_link(last_block, t, data) ==
    Block(last_block.index + 1, Ctime(t), data, last_block.prev_hash)

\* Mutant: the new block repeats the tail's index.
new_block_same_index(last_block, t, data) ==
    Block(last_block.index, Ctime(t), data, last_block.hash)

\* The block create_block builds from the tail it read.
new_block(last_block, t, data) ==
    Block(last_block.index + 1, Ctime(t), data, last_block.hash)

\* The loop of validation from Python position i (chain[i] is c[i + 1]).
RECURSIVE validation_from(_, _)
validation_from(c, i) ==
    IF i >= Len(c) THEN [value |-> TRUE, out |-> <<>>]
    ELSE IF c[i + 1].prev_hash # c[i].hash
         THEN [value |-> FALSE,
               out |-> <<"Block " \o ToString(i) \o " has been tampered with">>]
         ELSE validation_from(c, i + 1)

\* Mutant: the loop stops one block early, range(1, len(self.chain) - 1).
validation_of_short(c) == validation_from(SubSeq(c, 1, Len(c) - 1), 1)

\* Mutant: validation also wants each index to follow its predecessor's.
validation_of_indexed(c) ==
    IF \E i \in 2..Len(c) : c[i].index # c[i - 1].index + 1
    THEN [value |-> FALSE, out |-> <<>>]
    ELSE validation_from(c, 1)

validation_of(c) == validation_from(c, 1)


(***************************************************************************)
(* The ledger file.                                                        *)
(***************************************************************************)
Header == <<"Timestamp", "Data", "Hash">>

\* What a cell shows in the file: a hexdigest is 64 characters of 0-9a-f,
\* while the model's digest carries its preimage.
Shown(cell) == IF IsDigest(cell) THEN "<64 hex digits>" ELSE cell

\* The text readline() returns for a line.
LineText(line) == Join([i \in 1..Len(line) |-> Shown(line[i])], ",")

\* Mutant: the genesis block is left out, for block in self.chain[1:].
ledger_rows_skip_genesis(c) ==
    [i \in 1..(Len(c) - 1) |->
        <<c[i + 1].timestamp, DumpsData(c[i + 1].data), c[i + 1].hash>>]

\* The rows write_chain writes for the blocks of c, in list order.
ledger_rows(c) ==
    [i \in 1..Len(c) |-> <<c[i].timestamp, DumpsData(c[i].data), c[i].hash>>]

\* Mutant: the header is written on every export, as in the April draft.
header_needed_always(f) == TRUE

header_needed(f) ==
    IF ~f.exists \/ f.lines = <<>> THEN TRUE
    ELSE ~Contains("Timestamp", LineText(f.lines[1]))

\* The file after write_chain(ledger_path) on the list c.
write_chain_of(f, c) ==
    [exists |-> TRUE,
     lines |-> (IF f.exists THEN f.lines ELSE <<>>)
               \o (IF header_needed(f) THEN <<Header>> ELSE <<>>)
               \o ledger_rows(c)]

Absent == [exists |-> FALSE, lines |-> <<>>]
Empty == [exists |-> TRUE, lines |-> <<>>]
HeaderOnly == [exists |-> TRUE, lines |-> <<Header>>]
\* my_ledger.csv as the April draft's write_chain leaves it.
DraftLedger ==
    [exists |-> TRUE,
     lines |-> << <<"Data", "Hash">>, <<"1", "{'Event': 'Genesis Block'}">> >>]
LedgerFiles == {Absent, Empty, HeaderOnly, DraftLedger}

(***************************************************************************)
(* display_chain: the lines it prints.                                     *)
(***************************************************************************)
display_block(b) ==
    << "\nBlock #" \o ToString(b.index),
       "Timestamp: " \o b.timestamp,
       "Event: " \o DictGet(b.data, "event", "N/A"),
       "Batch ID: " \o DictGet(b.data, "batch_id", "N/A"),
       "Location: " \o DictGet(b.data, "location", "N/A"),
       "Destination: " \o DictGet(b.data, "destination", "N/A"),
       "Hash: " \o b.hash,
       "Previous Hash: " \o b.prev_hash >>

RECURSIVE display_chain_of(_)
display_chain_of(c) ==
    IF c = <<>> THEN <<>> ELSE display_block(Head(c)) \o display_chain_of(Tail(c))

(***************************************************************************)
(* The operations as actions.                                              *)
(***************************************************************************)
Done(op, arg, raised, value, out) ==
    [op |-> op, arg |-> arg, raised |-> raised, value |-> value, out |-> out]

\* The threads that may run create_block, none of them inside it.
Threads == {1, 2}
IdleThreads ==
    [t \in Threads |-> [pc |-> "idle", data |-> <<>>, last_block |-> <<>>, new_block |-> <<>>]]

Init ==
    /\ now = 0
    /\ chain = <<generate_genesis_block(now)>>
    /\ file0 \in LedgerFiles
    /\ file = file0
    /\ exports = <<>>
    /\ call = Done("__init__", <<>>, "none", <<>>, <<>>)
    /\ threads = IdleThreads

Tick ==
    /\ now < MaxTime
    /\ now' = now + 1
    /\ call' = Done("tick", <<>>, "none", <<>>, <<>>)
    /\ UNCHANGED <<chain, file, file0, exports, threads>>

\* Mutant: the new block is put in front, chain.insert(0, new_block).
create_block_front(data) ==
    /\ Len(chain) < MaxBlocks
    /\ LET last == retrieve_block(chain)
       IN /\ last.raised = "none"
          /\ chain' = <<new_block(last.value[1], now, data)>> \o chain
    /\ call' = Done("create_block", <<data>>, "none", <<>>, <<>>)
    /\ UNCHANGED <<now, file, file0, exports, threads>>

create_block(data) ==
    /\ Len(chain) < MaxBlocks
    /\ LET last == retrieve_block(chain)
       IN IF last.raised # "none"
          THEN /\ chain' = chain
               /\ call' = Done("create_block", <<data>>, last.raised, <<>>, <<>>)
          ELSE /\ chain' = Append(chain, new_block(last.value[1], now, data))
               /\ call' = Done("create_block", <<data>>, "none", <<>>, <<>>)
    /\ UNCHANGED <<now, file, file0, exports, threads>>

tail_access(name) ==
    /\ LET last == retrieve_block(chain)
       IN call' = Done(name, <<>>, last.raised, last.value, <<>>)
    /\ UNCHANGED <<chain, now, file, file0, exports, threads>>

\* Mutant: validation drops the blocks from the first broken link on.
validation_pruning ==
    /\ LET v == validation_of(chain)
           bad == {i \in 2..Len(chain) : chain[i].prev_hash # chain[i - 1].hash}
           first == CHOOSE i \in bad : \A j \in bad : i <= j
       IN /\ call' = Done("validation", <<>>, "none", <<v.value>>, v.out)
          /\ chain' = IF bad = {} THEN chain ELSE SubSeq(chain, 1, first - 1)
    /\ UNCHANGED <<now, file, file0, exports, threads>>

validation ==
    /\ LET v == validation_of(chain)
       IN call' = Done("validation", <<>>, "none", <<v.value>>, v.out)
    /\ UNCHANGED <<chain, now, file, file0, exports, threads>>

write_chain ==
    /\ Len(exports) < MaxExports
    /\ file' = write_chain_of(file, chain)
    /\ exports' = Append(exports, Len(chain))
    /\ call' = Done("write_chain", <<>>, "none", <<>>, <<>>)
    /\ UNCHANGED <<chain, now, file0, threads>>

display_chain ==
    /\ call' = Done("display_chain", <<>>, "none", <<>>, display_chain_of(chain))
    /\ UNCHANGED <<chain, now, file, file0, exports, threads>>

Next ==
    \/ Tick
    \/ \E data \in Payloads : create_block(data)
    \/ \E name \in {"retrieve_block", "last_block"} : tail_access(name)
    \/ validation
    \/ write_chain
    \/ display_chain

Spec == Init /\ [][Next]_vars


(***************************************************************************)
(* Direct manipulation of the public list and of a Block's attributes, as  *)
(* the sample script does after its export.                                *)
(***************************************************************************)
ForgedHashes == {"WhatAreTheOdds", "0"}

\* The digest of a block's present index, timestamp, data and prev_hash.
recomputed_hash(b) ==
    calcHash([Index |-> b.index, Timestamp |-> b.timestamp,
              Data |-> b.data, PreviousHash |-> b.prev_hash])

\* Nothing has been tampered with yet: every link and every stored digest is
\* as create_block left it.  The manipulations below act on such a list, as
\* the sample script's does, so a run holds at most one of them.
Intact(c) ==
    /\ \A i \in 2..Len(c) : c[i].prev_hash = c[i - 1].hash
    /\ \A i \in 1..Len(c) : c[i].hash = recomputed_hash(c[i])

\* tampered_block = Block(last_block.index + 1, time.ctime(), data, wrong);
\* myblockchain.chain.append(tampered_block)
inject_block(data, prev_hash) ==
    /\ Len(chain) < MaxBlocks
    /\ Intact(chain)
    /\ LET last == retrieve_block(chain)
       IN /\ last.raised = "none"
          /\ prev_hash # last.value[1].hash
          /\ chain' = Append(chain,
                 Block(last.value[1].index + 1, Ctime(now), data, prev_hash))
    /\ call' = Done("inject_block", <<data>>, "none", <<>>, <<>>)
    /\ UNCHANGED <<now, file, file0, exports, threads>>

\* chain[i].data edited in place: block_info["Data"] is the same dict object,
\* the stored hash is not recomputed.
overwrite_data(i, data) ==
    /\ i \in 1..Len(chain)
    /\ Intact(chain)
    /\ chain[i].data # data
    /\ chain' = [chain EXCEPT ![i].data = data, ![i].block_info.Data = data]
    /\ call' = Done("overwrite_data", <<data>>, "none", <<>>, <<>>)
    /\ UNCHANGED <<now, file, file0, exports, threads>>

\* chain[i].hash = h
overwrite_hash(i, h) ==
    /\ i \in 1..Len(chain)
    /\ Intact(chain)
    /\ chain[i].hash # h
    /\ chain' = [chain EXCEPT ![i].hash = h]
    /\ call' = Done("overwrite_hash", <<h>>, "none", <<>>, <<>>)
    /\ UNCHANGED <<now, file, file0, exports, threads>>

InitTamper == Init /\ file0 = Absent

NextTamper ==
    \/ \E data \in Payloads : create_block(data)
    \/ validation
    \/ write_chain
    \/ display_chain
    \/ \E data \in Payloads, h \in ForgedHashes : inject_block(data, h)
    \/ \E i \in 1..MaxBlocks, data \in Payloads : overwrite_data(i, data)
    \/ \E i \in 1..MaxBlocks : overwrite_hash(i, "WhatAreTheOdds")

SpecTamper == InitTamper /\ [][NextTamper]_vars

(***************************************************************************)
(* The methods on any list of blocks, the empty list included.             *)
(***************************************************************************)
MaxAnyLen == 2

Genesis0 == generate_genesis_block(0)
AnyBlocks ==
    { Genesis0,
      new_block(Genesis0, 0, Shipped),
      Block(1, Ctime(0), Shipped, "WhatAreTheOdds"),
      Block(0, Ctime(0), Manufactured, Genesis0.hash) }

AnyChains == UNION {[1..n -> AnyBlocks] : n \in 0..MaxAnyLen}

InitAny ==
    /\ now = 0
    /\ chain \in AnyChains
    /\ file0 = Absent
    /\ file = file0
    /\ exports = <<>>
    /\ call = Done("__init__", <<>>, "none", <<>>, <<>>)
    /\ threads = IdleThreads

SpecAny == InitAny /\ [][Next]_vars


(***************************************************************************)
(* Properties.                                                             *)
(***************************************************************************)
LinksHold(c) == \A i \in 2..Len(c) : c[i].prev_hash = c[i - 1].hash

IsPrefix(a, b) == Len(a) <= Len(b) /\ SubSeq(b, 1, Len(a)) = a

RECURSIVE SumSeq(_)
SumSeq(q) == IF q = <<>> THEN 0 ELSE Head(q) + SumSeq(Tail(q))

HeaderRows(lines) == {i \in 1..Len(lines) : lines[i] = Header}
DataRows(lines) == {i \in 1..Len(lines) : Len(lines[i]) = 3 /\ IsDigest(lines[i][3])}

\* C1 (chain continuity): in every state reached from a fresh chain by
\* create_block calls, each block's prev_hash is its predecessor's hash, and
\* validation returns True (and prints nothing).
C1_ChainContinuity ==
    /\ LinksHold(chain)
    /\ validation_of(chain).value = TRUE
    /\ call.op = "validation" => call.value = <<TRUE>> /\ call.out = <<>>

C1_Witness ==
    /\ Len(chain) = 3
    /\ call.op = "validation"
    /\ call.value = <<TRUE>>
    /\ chain[3].prev_hash = chain[2].hash

C3_BothChecks ==
    (call.op = "validation" /\ call.value = <<TRUE>>)
        => /\ LinksHold(chain)
           /\ \A i \in 1..Len(chain) : chain[i].hash = recomputed_hash(chain[i])

\* C4 (genesis invariants): block 0 has index 0, prev_hash "0" and a hash
\* that is the digest recomputed from its own four fields.
C4_GenesisInvariants ==
    /\ Len(chain) >= 1
    /\ chain[1].index = 0
    /\ chain[1].prev_hash = "0"
    /\ chain[1].hash = recomputed_hash(chain[1])

C4_Witness ==
    /\ Len(chain) = 3
    /\ call.op = "create_block"
    /\ chain[1].index = 0
    /\ chain[1].prev_hash = "0"

\* C5 (append): a create_block(payload) call appends exactly one block, with
\* index tail.index + 1, prev_hash tail.hash and the given payload; so the
\* block at position i (from 0) has index i.
C5_AppendLinksToTail ==
    /\ [](\A i \in 1..Len(chain) : chain[i].index = i - 1)
    /\ [][call'.op = "create_block"
            => /\ Len(chain') = Len(chain) + 1
               /\ LET tail == chain[Len(chain)]
                      added == chain'[Len(chain')]
                  IN /\ added.index = tail.index + 1
                     /\ added.prev_hash = tail.hash
                     /\ call'.arg = <<added.data>>]_vars

C5_Witness ==
    /\ Len(chain) = 3
    /\ call.op = "create_block"
    /\ call.arg = <<Manufactured>>
    /\ chain[3].index = 2
    /\ chain[3].data = Manufactured

\* C6 (append-only): create_block adds exactly one block behind the blocks
\* that were there and leaves those unchanged; every step of the public
\* operations keeps the earlier list as a prefix of the later one.
C6_AppendOnly ==
    /\ [][IsPrefix(chain, chain')]_vars
    /\ [][call'.op = "create_block"
            => Len(chain') = Len(chain) + 1 /\ SubSeq(chain', 1, Len(chain)) = chain]_vars

C6_Witness ==
    /\ Len(chain) = 3
    /\ call.op = "create_block"
    /\ chain[2].data = Shipped
    /\ chain[3].data = Shipped

\* C7 (read-side frame): validation, write_chain and display_chain leave the
\* list of blocks as it was, on a valid and on an invalid chain alike.
C7_ReadOpsKeepChain ==
    [][call'.op \in {"validation", "write_chain", "display_chain"}
         => chain' = chain]_vars

C7_Witness ==
    /\ ~LinksHold(chain)
    /\ call.op = "validation"
    /\ call.value = <<FALSE>>
    /\ exports # <<>>

\* C8 (idempotent export header): starting from a path that does not exist,
\* after k >= 1 exports the file is one header row, its first line, followed
\* by one data row per exported block: k * N rows when every export was of
\* the present N blocks.
C8_OneHeaderFromAbsent ==
    file0 = Absent =>
        IF exports = <<>> THEN file = Absent
        ELSE /\ file.exists
             /\ HeaderRows(file.lines) = {1}
             /\ Len(file.lines) = 1 + SumSeq(exports)
             /\ (\A j \in 1..Len(exports) : exports[j] = Len(chain))
                    => Len(file.lines) = 1 + Len(exports) * Len(chain)

C8_Witness ==
    /\ file0 = Absent
    /\ exports = <<2, 2>>
    /\ Len(chain) = 2
    /\ Len(file.lines) = 5

\* C9 (header exactly once): after write_chain, whatever the file was
\* before, the header row is in the file exactly once and before the first
\* data row.
C9_HeaderOnceBeforeData ==
    call.op = "write_chain" =>
        /\ Cardinality(HeaderRows(file.lines)) = 1
        /\ \A h \in HeaderRows(file.lines), d \in DataRows(file.lines) : h < d

\* C10 (empty chain): the tail accessor and validation on a list of zero
\* blocks end in EmptyChainError.
C10_EmptyChainError ==
    (Len(chain) = 0 /\ call.op \in {"retrieve_block", "last_block", "validation"})
        => call.raised = "EmptyChainError"


(***************************************************************************)
(* validation and create_block on lists that hold forged blocks: blocks    *)
(* built with any prev_hash, and blocks whose attributes were edited after *)
(* construction.                                                           *)
(***************************************************************************)
MaxForgedLen == 3

Linked1 == new_block(Genesis0, 0, Shipped)
ForgedBlocks ==
    { Genesis0,
      Linked1,
      \* a wrong prev_hash, as the sample script's tampered block
      Block(1, Ctime(0), Shipped, "WhatAreTheOdds"),
      \* linked to the genesis block, with the genesis block's index
      Block(0, Ctime(0), Manufactured, Genesis0.hash),
      \* a first block whose prev_hash is not "0"
      Block(0, Ctime(0), GenesisData, "WhatAreTheOdds"),
      \* the genesis block with its data edited in place
      [Genesis0 EXCEPT !.data = Shipped, !.block_info.Data = Shipped],
      \* the linked block with its index and timestamp edited in place
      [Linked1 EXCEPT !.index = 7, !.timestamp = Ctime(1)] }

ForgedChains == UNION {[1..n -> ForgedBlocks] : n \in 0..MaxForgedLen}

InitForged ==
    /\ now = 0
    /\ chain \in ForgedChains
    /\ file0 = Absent
    /\ file = file0
    /\ exports = <<>>
    /\ call = Done("__init__", <<>>, "none", <<>>, <<>>)
    /\ threads = IdleThreads

NextForged ==
    \/ \E data \in Payloads : create_block(data)
    \/ validation

SpecForged == InitForged /\ [][NextForged]_vars

BrokenLinks(c) == {i \in 2..Len(c) : c[i].prev_hash # c[i - 1].hash}

\* C11 (validation is the link check): on any list of blocks validation
\* returns True exactly when chain[i].prev_hash = chain[i-1].hash at every
\* position from 1 to the last; a list holding one block is valid.
C11_ValidIffLinksHold ==
    /\ validation_of(chain).value = LinksHold(chain)
    /\ call.op = "validation" => call.value = <<LinksHold(chain)>>
    /\ Len(chain) = 1 => validation_of(chain).value = TRUE

C11_Witness ==
    /\ call.op = "validation"
    /\ call.value = <<FALSE>>
    /\ Cardinality(BrokenLinks(chain)) >= 2


(***************************************************************************)
(* Block construction on its own: two Blocks built from chosen arguments.  *)
(***************************************************************************)
\* Manufactured with its keys inserted in another order.
ManufacturedReordered ==
    << <<"destination", "Distributor 1">>, <<"location", "Factory A">>,
       <<"batch_id", "Batch 1">>, <<"event", "Manufactured">> >>
\* Manufactured at another location.
ManufacturedB ==
    << <<"event", "Manufactured">>, <<"batch_id", "Batch 1">>,
       <<"location", "Factory B">>, <<"destination", "Distributor 1">> >>

BlockArgs ==
    [index : 0..1,
     timestamp : {Ctime(0), Ctime(1)},
     data : {Manufactured, ManufacturedReordered, ManufacturedB},
     prev_hash : {"0", "WhatAreTheOdds"}]

\* x = Block(**a); y = Block(**b)
construct_blocks(a, b) ==
    /\ call' = Done("Block", <<a, b>>, "none",
                    << Block(a.index, a.timestamp, a.data, a.prev_hash),
                       Block(b.index, b.timestamp, b.data, b.prev_hash) >>, <<>>)
    /\ UNCHANGED <<chain, now, file, file0, exports, threads>>

NextBlocks == \E a \in BlockArgs, b \in BlockArgs : construct_blocks(a, b)

SpecBlocks == InitTamper /\ [][NextBlocks]_vars

\* Python's == on two dicts: the same keys with the same values.
DictEq(d, e) ==
    /\ DictKeys(d) = DictKeys(e)
    /\ \A k \in DictKeys(d) : DictGet(d, k, "") = DictGet(e, k, "")

SameFields(a, b) ==
    /\ a.index = b.index
    /\ a.timestamp = b.timestamp
    /\ DictEq(a.data, b.data)
    /\ a.prev_hash = b.prev_hash

\* C12 (hash determinism): two Blocks built from the same index, timestamp,
\* payload and prev_hash have the same hash, whatever the order in which the
\* payload's keys were inserted; two Blocks that differ in one of the four
\* have different hashes.
C12_HashDeterminism ==
    call.op = "Block" =>
        LET a == call.arg[1]
            b == call.arg[2]
            x == call.value[1]
            y == call.value[2]
        IN /\ SameFields(a, b) => x.hash = y.hash
           /\ ~SameFields(a, b) => x.hash # y.hash

C12_Witness ==
    /\ call.op = "Block"
    /\ call.arg[1].data = Manufactured
    /\ call.arg[2].data = ManufacturedReordered
    /\ SameFields(call.arg[1], call.arg[2])
    /\ call.value[1].hash = call.value[2].hash


(***************************************************************************)
(* create_block run by two threads without a lock: its three statements    *)
(* (read the tail, build the block, append it) are separate steps, and the *)
(* locals last_block and new_block stay with the thread.  The atomic       *)
(* create_block is the same method run with no other thread inside it.     *)
(***************************************************************************)
\* last_block = self.retrieve_block()
read_tail(t, data) ==
    /\ threads[t].pc = "idle"
    /\ LET last == retrieve_block(chain)
       IN /\ last.raised = "none"
          /\ threads' = [threads EXCEPT ![t] =
                 [pc |-> "read", data |-> data,
                  last_block |-> last.value, new_block |-> <<>>]]
    /\ UNCHANGED <<chain, now, file, file0, exports, call>>

\* new_block = Block(last_block.index + 1, time.ctime(), data, last_block.hash)
build_block(t) ==
    /\ threads[t].pc = "read"
    /\ threads' = [threads EXCEPT ![t].pc = "built",
                                  ![t].new_block =
                       <<new_block(threads[t].last_block[1], now, threads[t].data)>>]
    /\ UNCHANGED <<chain, now, file, file0, exports, call>>

\* Mutant: the block is built again from the tail at the time of the append.
push_block_relinked(t) ==
    /\ threads[t].pc = "built"
    /\ Len(chain) < MaxBlocks
    /\ chain' = Append(chain, new_block(chain[Len(chain)], now, threads[t].data))
    /\ threads' = [threads EXCEPT ![t].pc = "done"]
    /\ call' = Done("create_block", <<threads[t].data>>, "none", <<>>, <<>>)
    /\ UNCHANGED <<now, file, file0, exports>>

\* self.chain.append(new_block)
push_block(t) ==
    /\ threads[t].pc = "built"
    /\ Len(chain) < MaxBlocks
    /\ chain' = Append(chain, threads[t].new_block[1])
    /\ threads' = [threads EXCEPT ![t].pc = "done"]
    /\ call' = Done("create_block", <<threads[t].data>>, "none", <<>>, <<>>)
    /\ UNCHANGED <<now, file, file0, exports>>

NextRace ==
    \/ Tick
    \/ \E data \in Payloads : create_block(data)
    \/ validation
    \/ \E t \in Threads, data \in Payloads : read_tail(t, data)
    \/ \E t \in Threads : build_block(t)
    \/ \E t \in Threads : push_block(t)

SpecRace == InitTamper /\ [][NextRace]_vars

\* Two blocks of c with the same prev_hash and the same index.
Forked(c) ==
    \E i \in 1..Len(c), j \in 1..Len(c) :
        i < j /\ c[i].prev_hash = c[j].prev_hash /\ c[i].index = c[j].index

\* C13 (unsynchronised appends fork the chain): when two create_block calls
\* have both read the same tail and both appended, the list holds two blocks
\* with the same prev_hash and the same index and validation returns False;
\* while create_block has only run atomically, no two blocks share a
\* prev_hash or an index and validation returns True.
C13_RaceForksChain ==
    /\ (/\ threads[1].pc = "done"
        /\ threads[2].pc = "done"
        /\ threads[1].last_block = threads[2].last_block)
       => /\ Forked(chain)
          /\ validation_of(chain).value = FALSE
          /\ call.op = "validation" => call.value = <<FALSE>>
    /\ (\A t \in Threads : threads[t].pc = "idle")
       => /\ \A i \in 1..Len(chain), j \in 1..Len(chain) :
                i < j => /\ chain[i].prev_hash # chain[j].prev_hash
                         /\ chain[i].index # chain[j].index
          /\ validation_of(chain).value = TRUE

C13_Witness ==
    /\ threads[1].pc = "done"
    /\ threads[2].pc = "done"
    /\ threads[1].last_block = threads[2].last_block
    /\ Len(chain) = 3
    /\ chain[2].prev_hash = chain[3].prev_hash
    /\ call.op = "validation"
    /\ call.value = <<FALSE>>


\* The key-sorted JSON text Python prints for the payloads of the model.
SortedJson(d) ==
    IF DictEq(d, GenesisData) THEN "{\"Event\": \"Genesis Block\"}"
    ELSE "{\"batch_id\": \"Batch 1\", \"destination\": \"Distributor 1\", \"event\": \""
         \o DictGet(d, "event", "") \o "\", \"location\": \""
         \o DictGet(d, "location", "") \o "\"}"

\* C14 (export rows): a write_chain call keeps the lines the file held and
\* adds, after the header if it writes one, exactly one row per block of the
\* list, in list order from the genesis block on, each row being the block's
\* timestamp, the key-sorted JSON of its payload and its hash; it does so on
\* a list validation rejects as on one it accepts.
C14_ExportRows ==
    [][call'.op = "write_chain" =>
         LET old == IF file.exists THEN file.lines ELSE <<>>
             new == file'.lines
             n == Len(chain)
         IN /\ IsPrefix(old, new)
            /\ Len(new) - Len(old) \in {n, n + 1}
            /\ Len(new) = Len(old) + n + 1 => new[Len(old) + 1] = Header
            /\ \A i \in 1..n :
                   new[Len(new) - n + i] =
                       <<chain[i].timestamp, SortedJson(chain[i].data), chain[i].hash>>]_vars

C14_Witness ==
    /\ call.op = "write_chain"
    /\ exports = <<1, 3>>
    /\ ~LinksHold(chain)
    /\ Len(file.lines) = 5
    /\ file.lines[3][2] = "{\"Event\": \"Genesis Block\"}"


FirstBroken(c) == CHOOSE i \in BrokenLinks(c) : \A j \in BrokenLinks(c) : i <= j

\* C15 (append keeps the verdict): a create_block call on a list validation
\* accepts leaves a list it accepts; on a list whose first broken link is at
\* position j it leaves a list validation rejects, with the first broken
\* link still at j and the same message.
C15_AppendKeepsVerdict ==
    [][call'.op = "create_block" =>
         /\ validation_of(chain).value => validation_of(chain').value
         /\ BrokenLinks(chain) # {} =>
                /\ validation_of(chain').value = FALSE
                /\ BrokenLinks(chain') # {}
                /\ FirstBroken(chain') = FirstBroken(chain)
                /\ validation_of(chain').out = validation_of(chain).out]_vars

C15_Witness ==
    /\ call.op = "create_block"
    /\ call.raised = "none"
    /\ Len(chain) = 3
    /\ BrokenLinks(chain) = {2}
    /\ chain[3].prev_hash = chain[2].hash
    /\ chain[2].hash = recomputed_hash(chain[2])

\* Two lists of the same length that agree on prev_hash and hash at every
\* position.
SamePairs(c, d) ==
    /\ Len(c) = Len(d)
    /\ \A i \in 1..Len(c) : c[i].prev_hash = d[i].prev_hash /\ c[i].hash = d[i].hash

\* C16 (the verdict reads prev_hash and hash only): the verdict validation
\* returned for the list is the verdict of every list that agrees with it
\* position by position on prev_hash and hash, whatever the indices,
\* timestamps, payloads and the first block's prev_hash are.
C16_VerdictReadsPairsOnly ==
    call.op = "validation" =>
        \A other \in ForgedChains :
            SamePairs(chain, other) => validation_of(other).value = call.value[1]

C16_Witness ==
    /\ call.op = "validation"
    /\ call.value = <<TRUE>>
    /\ Len(chain) = 2
    /\ chain[1].index = chain[2].index
    /\ chain[1].hash # recomputed_hash(chain[1])
    /\ \E other \in ForgedChains :
           /\ SamePairs(chain, other)
           /\ other[1].data # chain[1].data

====
